---- MODULE Spec2Model ----
(***************************************************************************)
(* Task lifecycle and billing ledger of captcha-solver-v3.                 *)
(*                                                                         *)
(* The database (users.balance, tasks, transactions) is the committed      *)
(* state.  Every service call runs in its own AsyncSession, that is in its *)
(* own database transaction: its statements are held in the session (wbal, *)
(* wtx) and reach the committed state at session.commit().                 *)
(* An UPDATE takes the row lock until the transaction ends; an INSERT of a *)
(* key of uq_transactions_ref waits for an uncommitted INSERT of the same  *)
(* key.  Money is counted in units of 0.00001; the Numeric(12, 4) columns  *)
(* round every stored value to a multiple of 0.0001.                       *)
(*                                                                         *)
(* The rate limiter keeps one Redis sorted set per key.  A check reads the *)
(* caller's clock (time.time()) and then runs the Lua script, which Redis  *)
(* executes as one step.  Time is counted in ticks, TicksPerSecond to the  *)
(* second.                                                                 *)
(***************************************************************************)
EXTENDS Integers, Sequences, FiniteSets, TLC

\* ---------------------------------------------------------------- bounds
NumSessions == 2
MaxTasks == 2
MaxCalls == 5

MaxChecks == 3
MaxTime == 5

\* ------------------------------------------------------------- constants
Quantum == 10
Price == 299
rate_limit_per_minute == 60
window_seconds == 60
max_tries == 3

Sessions == 1..NumSessions
TaskIds == 1..MaxTasks
Payments == {1, 2}
Users == {"u1", "u2"}
DepositAmounts == {500}
Tokens == {"tokA", "tokB"}
ErrorCodes == {"CAPTCHA_UNSOLVABLE", "INTERNAL_ERROR"}
NoStr == "none"
NoCost == -1

PENDING == "pending"
PROCESSING == "processing"
READY == "ready"
FAILED == "failed"
ABSENT == "absent"

Callers == {"c1", "c2"}
GateKeys == {"key-a", "key-b"}
Limits == {1, 2}
Windows == {1, 2}
SubSeconds == {0, 1}
TicksPerSecond == Cardinality(SubSeconds)
Randoms == Limits
NoTime == -1

AccountIds == {"a1", "a2"}
Amounts == {-Price, Price, 500}
InsufficientBalanceError == "InsufficientBalanceError"

Instants == {1, 2}

ApiKeys == {"sk_live_u1", "sk_live_u2", "sk_live_xx"}
GateAnswers == {"allowed", "limited", "ConnectionError"}
Descriptions == {"Failed to solve captcha"}
InvalidStateTransitionError == "InvalidStateTransitionError"
KeyHeads == {"0a1b2c3d", "4e5f6a7b", "8c9d0e1f"}
KeyTails == {"t1", "t2"}

VARIABLES balance, tasks, ledger, sess, ret, calls
VARIABLES clock, limit, zset, expire, gate, gret, admitted, retry_at, checks
VARIABLES entity, account, queue, credential
dbvars == <<balance, tasks, ledger, sess, ret, calls>>
gatevars == <<clock, limit, zset, expire, gate, gret, admitted, retry_at, checks>>
appvars == <<entity, account, queue, credential>>
vars == <<balance, tasks, ledger, sess, ret, calls,
          clock, limit, zset, expire, gate, gret, admitted, retry_at, checks,
          entity, account, queue, credential>>

\* ---------------------------------------------------------- pure helpers
Abs(x) == IF x < 0 THEN -x ELSE x

\* Numeric(12, 4): a stored value is rounded half away from zero.
Round4(x) ==
    IF x >= 0 THEN ((x + Quantum \div 2) \div Quantum) * Quantum
    ELSE -(((-x + Quantum \div 2) \div Quantum) * Quantum)

is_terminal(st) == st \in {READY, FAILED}

\* A transition table that lets every change of status through.
AnyOtherStatus(from, to) == from # to
can_transition_to(from, to) ==
    \/ from = PENDING /\ to \in {PROCESSING, FAILED}
    \/ from = PROCESSING /\ to \in {READY, FAILED}

\* An admission check that every balance passes.
AlwaysAffordable(bal, amount) == TRUE
can_afford(bal, amount) == bal >= amount

create_deduct(u, amount, bal_after, j) ==
    [user |-> u, type |-> "deduct", amount |-> Round4(-Abs(amount)),
     balance_after |-> Round4(bal_after),
     reference_id |-> j, reference_type |-> "TASK"]

create_refund(u, amount, bal_after, j) ==
    [user |-> u, type |-> "refund", amount |-> Round4(Abs(amount)),
     balance_after |-> Round4(bal_after),
     reference_id |-> j, reference_type |-> "TASK_REFUND"]

create_deposit(u, amount, bal_after, p) ==
    [user |-> u, type |-> "deposit", amount |-> Round4(Abs(amount)),
     balance_after |-> Round4(bal_after),
     reference_id |-> p, reference_type |-> "PAYMENT"]

\* A constraint on reference_id alone.
KeyByReferenceId(tx) == <<tx.reference_id, "ANY">>
Key(tx) == <<tx.reference_id, tx.reference_type>>

\* uq_transactions_ref: a committed row already holds the key.
NoConstraint(k) == FALSE
UniqueViolation(k) == \E i \in DOMAIN ledger : Key(ledger[i]) = k

\* An uncommitted INSERT of the same key by another transaction: wait.
PendingKey(k, s) ==
    \E o \in Sessions \ {s} : \E i \in DOMAIN sess[o].wtx : Key(sess[o].wtx[i]) = k

\* Row locks on users held by the other transactions.
NoRowLock(u, s) == FALSE
LockedUser(u, s) == \E o \in Sessions \ {s} : \E w \in sess[o].wbal : w[1] = u

\* UPDATE users SET balance = balance + amount [WHERE balance >= abs(amount)]
UnguardedAllows(bal, amount) == TRUE
BalanceAllows(bal, amount) == amount >= 0 \/ bal >= Abs(amount)
NewBalance(bal, amount) == Round4(bal + amount)

NewTask(u) ==
    [status |-> PENDING, user |-> u, token |-> NoStr, cost |-> 0,
     error_code |-> NoStr]
NoTask ==
    [status |-> ABSENT, user |-> NoStr, token |-> NoStr, cost |-> 0,
     error_code |-> NoStr]

\* The values dict of update_status: only the arguments given are written.
StatusUpdate(j, st, tok, cost, err) ==
    [id |-> j, status |-> st, token |-> tok, cost |-> cost, error_code |-> err]

ApplyUpdate(row, w) ==
    IF row.status = ABSENT THEN row
    ELSE [row EXCEPT !.status = w.status,
                     !.token = IF w.token # NoStr THEN w.token ELSE @,
                     !.cost = IF w.cost # NoCost THEN Round4(w.cost) ELSE @,
                     !.error_code = IF w.error_code # NoStr THEN w.error_code ELSE @]

FreeIds == {j \in TaskIds : tasks[j].status = ABSENT}
FreshId == IF FreeIds = {} THEN 0 ELSE CHOOSE j \in FreeIds : \A k \in FreeIds : j <= k

\* ------------------------------------------------------------- sessions
\* era: number of committed transactions when the call began.
\* req: the HTTP request a route is serving and the answer of the rate
\* limiter to it.
NoRequest == [clientKey |-> NoStr, task_valid |-> FALSE, answer |-> NoStr]

Idle ==
    [pc |-> "idle", op |-> NoStr, task |-> 0, user |-> NoStr, token |-> NoStr,
     pay |-> 0, amt |-> 0, seen |-> ABSENT, era |-> 0,
     wbal |-> {}, wtx |-> <<>>, req |-> NoRequest]

NoReturn ==
    [op |-> NoStr, task |-> 0, user |-> NoStr, seen |-> ABSENT, amt |-> 0,
     era |-> 0, result |-> NoStr, flip |-> FALSE, req |-> NoRequest]

\* A session that can take the next call.  Sessions without a call are
\* interchangeable, so the lowest-numbered one is taken.
Free(s) ==
    /\ sess[s].pc = "idle"
    /\ \A o \in Sessions : o < s => sess[o].pc # "idle"
    /\ calls < MaxCalls

\* Ids a caller can name: every stored id and one id that is not stored
\* (all unknown ids behave alike).
KnownTasks == {j \in TaskIds : tasks[j].status # ABSENT \/ j = FreshId}
UsedPayments ==
    {p \in Payments :
        \/ \E i \in DOMAIN ledger : Key(ledger[i]) = <<p, "PAYMENT">>
        \/ \E o \in Sessions : sess[o].pay = p}
KnownPayments ==
    {p \in Payments : p \in UsedPayments \/ \A q \in Payments \ UsedPayments : p <= q}

Call(s, op) == [Idle EXCEPT !.op = op, !.era = Len(ledger)]

\* The call returns or raises: what was not committed is rolled back, the
\* session is closed and the caller holds the outcome.
Finish(s, r, res) ==
    /\ sess' = [sess EXCEPT ![s] = Idle]
    /\ ret' = [op |-> r.op, task |-> r.task, user |-> r.user, seen |-> r.seen,
               amt |-> r.amt, era |-> r.era, result |-> res, flip |-> ~ret.flip,
               req |-> r.req]

Continue(s, r) ==
    /\ sess' = [sess EXCEPT ![s] = r]
    /\ UNCHANGED ret

\* session.commit(): the writes of the transaction become the committed state.
CommittedBalance(wbal) ==
    [u \in Users |->
        IF \E w \in wbal : w[1] = u
        THEN (CHOOSE w \in wbal : w[1] = u)[2]
        ELSE balance[u]]
CommittedTasks(wtask) ==
    [j \in TaskIds |->
        IF \E w \in wtask : w.id = j
        THEN ApplyUpdate(tasks[j], CHOOSE w \in wtask : w.id = j)
        ELSE tasks[j]]
Commit(wbal, wtx, wtask) ==
    /\ balance' = CommittedBalance(wbal)
    /\ ledger' = ledger \o wtx
    /\ tasks' = CommittedTasks(wtask)

\* --------------------------------------------------------- rate limiter
\* A caller inside is_allowed: now and window_start are computed by the
\* caller before the script is sent.
GateIdle == [pc |-> "idle", key |-> NoStr, now |-> 0, window_start |-> 0]

\* (is_allowed, remaining, retry_after) of the last check that returned;
\* resumed tells that the check came at or after the retry time of a
\* rejection not followed by an admission.
NoAnswer ==
    [key |-> NoStr, now |-> 0, is_allowed |-> FALSE, remaining |-> 0,
     retry_after |-> 0, resumed |-> FALSE, flip |-> FALSE]

\* Keys a caller can present: every key seen so far and one new key (keys
\* never seen behave alike).
UsedKeys ==
    {k \in GateKeys : \/ zset[k] # {}
                      \/ \E t \in 0..MaxTime : admitted[k][t] > 0
                      \/ retry_at[k] # NoTime
                      \/ \E c \in Callers : gate[c].key = k}
KnownKeys == IF "key-a" \in UsedKeys THEN GateKeys ELSE {"key-a"}

\* Values math.random() can give that differ in effect: each value drawn
\* for the same printed time under the key, and one other value.
DrawnRandoms(k, now) == {m[2] : m \in {n \in zset[k] : n[1] = now}}
KnownRandoms(k, now) ==
    {r \in Randoms : r \in DrawnRandoms(k, now)
                     \/ \A q \in Randoms \ DrawnRandoms(k, now) : r <= q}

\* now .. '-' .. math.random(): the ticks of this model are further apart
\* than the digits Lua prints, so the printed time is the tick.
Member(now, rnd) == <<now, rnd>>
Score(m) == m[1]

\* ZREMRANGEBYSCORE key -inf window_start
StaleExclusive(score, window_start) == score < window_start
Stale(score, window_start) == score <= window_start

\* math.ceil of a duration in ticks, in seconds
floor(x) == x \div TicksPerSecond
ceil(x) == -((-x) \div TicksPerSecond)

\* ZRANGE key 0 0 WITHSCORES
Oldest(S) == CHOOSE t \in {Score(m) : m \in S} : \A m \in S : t <= Score(m)

DbStart ==
    /\ balance = [u \in Users |-> 0]
    /\ tasks = [j \in TaskIds |-> NoTask]
    /\ ledger = <<>>
    /\ sess = [s \in Sessions |-> Idle]
    /\ ret = NoReturn
    /\ calls = 0

GateStart(lim) ==
    /\ clock = 0
    /\ limit = lim
    /\ zset = [k \in GateKeys |-> {}]
    /\ expire = [k \in GateKeys |-> NoTime]
    /\ gate = [c \in Callers |-> GateIdle]
    /\ gret = NoAnswer
    /\ admitted = [k \in GateKeys |-> [t \in 0..MaxTime |-> 0]]
    /\ retry_at = [k \in GateKeys |-> NoTime]
    /\ checks = 0

\* ---------------------------------------------------------- Task entity
\* Task.create: a new entity is PENDING with nothing else set.
NewEntity ==
    [status |-> PENDING, token |-> NoStr, cost |-> 0, error_code |-> NoStr,
     error_desc |-> NoStr, started_at |-> NoTime, completed_at |-> NoTime]

\* The entity in hand, the last method called on it and what it raised.
NoCall == [method |-> NoStr, target |-> NoStr, raised |-> NoStr, flip |-> FALSE]

EntityStart == entity = [self |-> NewEntity, call |-> NoCall]

\* The users table as update_balance_atomic sees it: a balance for every
\* id that has a row.  The last call on it and its outcome.
NoRow == -1
None == -1
NoAccountCall ==
    [op |-> NoStr, user_id |-> NoStr, amount |-> 0, value |-> None,
     raised |-> NoStr, n |-> 0]

AccountStart ==
    account = [rows |-> [a \in AccountIds |-> NoRow], call |-> NoAccountCall]

\* The arq queue: for every task id the jobs enqueued for it that no worker
\* has finished, and the number of times the job was started.
NoJob == [jobs |-> 0, job_try |-> 0]

QueueStart == queue = [j \in TaskIds |-> NoJob]

\* An API key is "sk_live_" followed by the 56 hexadecimal digits of
\* secrets.token_hex(28): the 8 characters of the literal, the first 8
\* digits and the other 48.
ApiKey(head, tail) == <<"sk_live_", head, tail>>
KeyValues == {ApiKey(h, t) : h \in KeyHeads, t \in KeyTails}

\* The key each account holds and the rate limiter keys its requests have
\* been counted under.
CredentialStart ==
    credential = [api_key |-> [u \in Users |->
                                 IF u = "u1" THEN ApiKey("0a1b2c3d", "t1")
                                 ELSE ApiKey("4e5f6a7b", "t1")],
                  counted |-> [u \in Users |-> {}]]

AppStart == EntityStart /\ AccountStart /\ QueueStart /\ CredentialStart

Init ==
    /\ DbStart
    /\ GateStart([max_requests |-> rate_limit_per_minute,
                  window_seconds |-> window_seconds])
    /\ AppStart

\* ------------------------------------------------ TaskService.create_task
\* user_repo.get_by_id and the can_afford check.
CreateCheck(s, u) ==
    /\ Free(s)
    /\ FreeIds # {}
    /\ calls' = calls + 1
    /\ IF can_afford(balance[u], Price)
       THEN Continue(s, [Call(s, "create") EXCEPT !.pc = "csave", !.user = u])
       ELSE Finish(s, [Call(s, "create") EXCEPT !.user = u], "insufficient_balance")
    /\ UNCHANGED <<balance, tasks, ledger>>
    /\ UNCHANGED <<gatevars, appvars>>

\* Task.create, task_repo.save and session.commit.
CreateSave(s) ==
    /\ sess[s].pc = "csave"
    /\ FreeIds # {}
    /\ tasks' = [tasks EXCEPT ![FreshId] = NewTask(sess[s].user)]
    /\ Finish(s, [sess[s] EXCEPT !.task = FreshId], "ok")
    /\ UNCHANGED <<balance, ledger, calls>>
    /\ UNCHANGED <<gatevars, appvars>>

\* ------------------------------------------- TaskService.start_processing
\* update_status(task_id, PROCESSING) and session.commit.
StartProcessing(s, j) ==
    /\ Free(s)
    /\ j \in KnownTasks
    /\ calls' = calls + 1
    /\ Commit({}, <<>>, {StatusUpdate(j, PROCESSING, NoStr, NoCost, NoStr)})
    /\ Finish(s, [Call(s, "start") EXCEPT !.task = j, !.seen = tasks[j].status],
              IF tasks[j].status = ABSENT THEN "false" ELSE "true")
    /\ UNCHANGED <<gatevars, appvars>>

\* ---------------------------------------------- TaskService.complete_task
\* task_repo.get_by_id
CompleteRead(s, j, tok) ==
    /\ Free(s)
    /\ j \in KnownTasks
    /\ calls' = calls + 1
    /\ IF tasks[j].status = ABSENT
       THEN Finish(s, [Call(s, "complete") EXCEPT !.task = j], "not_found")
       ELSE Continue(s, [Call(s, "complete") EXCEPT
                           !.pc = "deduct", !.task = j, !.token = tok,
                           !.user = tasks[j].user, !.seen = tasks[j].status])
    /\ UNCHANGED <<balance, tasks, ledger>>
    /\ UNCHANGED <<gatevars, appvars>>

\* BillingService.deduct_balance: update_balance_atomic(user_id, -abs(amount))
CompleteDeduct(s) ==
    /\ sess[s].pc = "deduct"
    /\ ~LockedUser(sess[s].user, s)
    /\ LET u == sess[s].user IN
       IF BalanceAllows(balance[u], -Abs(Price))
       THEN Continue(s, [sess[s] EXCEPT
                           !.pc = "savetx",
                           !.wbal = {<<u, NewBalance(balance[u], -Abs(Price))>>}])
       ELSE Finish(s, sess[s], "insufficient_balance")
    /\ UNCHANGED <<balance, tasks, ledger, calls>>
    /\ UNCHANGED <<gatevars, appvars>>

\* deduct_balance called with auto_commit=True: the deduction is committed
\* before the task row is written.
CompleteSaveTxAutoCommit(s) ==
    /\ sess[s].pc = "savetx"
    /\ LET u == sess[s].user
           nb == (CHOOSE w \in sess[s].wbal : w[1] = u)[2]
           tx == create_deduct(u, Price, nb, sess[s].task)
       IN /\ ~PendingKey(Key(tx), s)
          /\ IF UniqueViolation(Key(tx))
             THEN /\ Finish(s, sess[s], "integrity_error")
                  /\ UNCHANGED <<balance, ledger>>
             ELSE /\ balance' = [balance EXCEPT ![u] = nb]
                  /\ ledger' = Append(ledger, tx)
                  /\ Continue(s, [sess[s] EXCEPT !.pc = "update", !.wbal = {}])
    /\ UNCHANGED <<tasks, calls>>
    /\ UNCHANGED <<gatevars, appvars>>

\* BillingService.deduct_balance: tx_repo.save(create_deduct(...))
CompleteSaveTx(s) ==
    /\ sess[s].pc = "savetx"
    /\ LET u == sess[s].user
           nb == (CHOOSE w \in sess[s].wbal : w[1] = u)[2]
           tx == create_deduct(u, Price, nb, sess[s].task)
       IN /\ ~PendingKey(Key(tx), s)
          /\ IF UniqueViolation(Key(tx))
             THEN Finish(s, sess[s], "integrity_error")
             ELSE Continue(s, [sess[s] EXCEPT !.pc = "update", !.wtx = Append(@, tx)])
    /\ UNCHANGED <<balance, tasks, ledger, calls>>
    /\ UNCHANGED <<gatevars, appvars>>

\* update_status(task_id, READY, token=token, cost=price) and session.commit
CompleteCommit(s) ==
    /\ sess[s].pc = "update"
    /\ Commit(sess[s].wbal, sess[s].wtx,
              {StatusUpdate(sess[s].task, READY, sess[s].token, Price, NoStr)})
    /\ Finish(s, sess[s], "ok")
    /\ UNCHANGED calls
    /\ UNCHANGED <<gatevars, appvars>>

\* -------------------------------------------------- TaskService.fail_task
\* update_status(task_id, FAILED, error_code, error_desc), session.commit
\* and get_task_by_id.
FailTask(s, j, e) ==
    /\ Free(s)
    /\ j \in KnownTasks
    /\ calls' = calls + 1
    /\ Commit({}, <<>>, {StatusUpdate(j, FAILED, NoStr, NoCost, e)})
    /\ Finish(s, [Call(s, "fail") EXCEPT !.task = j, !.seen = tasks[j].status],
              IF tasks[j].status = ABSENT THEN "not_found" ELSE "ok")
    /\ UNCHANGED <<gatevars, appvars>>

\* --------------------------------------------------- TaskService.get_task
\* A lookup by id alone.
get_by_id_any_user(j, u) == tasks[j]

\* task_repo.get_by_id_and_user: SELECT ... WHERE id = :id AND user_id = :uid
get_by_id_and_user(j, u) ==
    IF tasks[j].status # ABSENT /\ tasks[j].user = u THEN tasks[j] ELSE NoTask

\* get_task(task_id, user_id) as called by get_task_result.
GetTask(s, j, u) ==
    /\ Free(s)
    /\ j \in KnownTasks
    /\ calls' = calls + 1
    /\ Finish(s, [Call(s, "get") EXCEPT !.task = j, !.user = u,
                                       !.seen = tasks[j].status],
              IF get_by_id_and_user(j, u) = NoTask THEN "not_found" ELSE "ok")
    /\ UNCHANGED <<balance, tasks, ledger>>
    /\ UNCHANGED <<gatevars, appvars>>

\* ------------------------------------------------------------ get_balance
\* POST /getBalance: authenticate_by_api_key and float(user.balance).
GetBalance(s, u) ==
    /\ Free(s)
    /\ calls' = calls + 1
    /\ Finish(s, [Call(s, "balance") EXCEPT !.user = u, !.amt = balance[u]], "ok")
    /\ UNCHANGED <<balance, tasks, ledger>>
    /\ UNCHANGED <<gatevars, appvars>>

\* ------------------------------------------------ TaskService.refund_task
\* refund_task without the status and cost checks.
RefundReadUnchecked(s, j, u) ==
    /\ Free(s)
    /\ j \in KnownTasks
    /\ calls' = calls + 1
    /\ LET c == [Call(s, "refund") EXCEPT !.task = j, !.user = u,
                                          !.seen = tasks[j].status] IN
       IF get_by_id_and_user(j, u) = NoTask
       THEN Finish(s, c, "not_found")
       ELSE Continue(s, [c EXCEPT !.pc = "append", !.amt = tasks[j].cost])
    /\ UNCHANGED <<balance, tasks, ledger>>
    /\ UNCHANGED <<gatevars, appvars>>

\* get_task(task_id, user_id) and the eligibility checks.
RefundRead(s, j, u) ==
    /\ Free(s)
    /\ j \in KnownTasks
    /\ calls' = calls + 1
    /\ LET c == [Call(s, "refund") EXCEPT !.task = j, !.user = u,
                                          !.seen = tasks[j].status] IN
       IF get_by_id_and_user(j, u) = NoTask
       THEN Finish(s, c, "not_found")
       ELSE IF tasks[j].status # READY \/ tasks[j].cost <= 0
       THEN Finish(s, c, "false")
       ELSE Continue(s, [c EXCEPT !.pc = "append", !.amt = tasks[j].cost])
    /\ UNCHANGED <<balance, tasks, ledger>>
    /\ UNCHANGED <<gatevars, appvars>>

\* save_idempotent whose result is not looked at: a duplicate goes on to the
\* credit.
RefundAppendUnchecked(s) ==
    /\ sess[s].pc = "append"
    /\ LET tx == create_refund(sess[s].user, sess[s].amt, 0, sess[s].task) IN
       /\ ~PendingKey(Key(tx), s)
       /\ IF UniqueViolation(Key(tx))
          THEN Continue(s, [sess[s] EXCEPT !.pc = "credit"])
          ELSE Continue(s, [sess[s] EXCEPT !.pc = "credit", !.wtx = Append(@, tx)])
    /\ UNCHANGED <<balance, tasks, ledger, calls>>
    /\ UNCHANGED <<gatevars, appvars>>

\* BillingService.refund: tx_repo.save_idempotent(create_refund(...))
RefundAppend(s) ==
    /\ sess[s].pc = "append"
    /\ LET tx == create_refund(sess[s].user, sess[s].amt, 0, sess[s].task) IN
       /\ ~PendingKey(Key(tx), s)
       /\ IF UniqueViolation(Key(tx))
          THEN Finish(s, sess[s], "false")
          ELSE Continue(s, [sess[s] EXCEPT !.pc = "credit", !.wtx = Append(@, tx)])
    /\ UNCHANGED <<balance, tasks, ledger, calls>>
    /\ UNCHANGED <<gatevars, appvars>>

\* BillingService.refund: update_balance_atomic(user_id, abs(amount)) and
\* session.commit
RefundCommit(s) ==
    /\ sess[s].pc = "credit"
    /\ ~LockedUser(sess[s].user, s)
    /\ LET u == sess[s].user IN
       Commit({<<u, NewBalance(balance[u], Abs(sess[s].amt))>>}, sess[s].wtx, {})
    /\ Finish(s, sess[s], "true")
    /\ UNCHANGED calls
    /\ UNCHANGED <<gatevars, appvars>>

\* ------------------------------------------------- BillingService.deposit
\* update_balance_atomic(user_id, abs(amount))
DepositCredit(s, u, a, p) ==
    /\ Free(s)
    /\ p \in KnownPayments
    /\ ~LockedUser(u, s)
    /\ calls' = calls + 1
    /\ Continue(s, [Call(s, "deposit") EXCEPT
                      !.pc = "dsave", !.user = u, !.pay = p, !.amt = a,
                      !.wbal = {<<u, NewBalance(balance[u], Abs(a))>>}])
    /\ UNCHANGED <<balance, tasks, ledger>>
    /\ UNCHANGED <<gatevars, appvars>>

\* deposit that commits its credit although the save failed.
DepositCommitKeepsCredit(s) ==
    /\ sess[s].pc = "dsave"
    /\ LET u == sess[s].user
           nb == (CHOOSE w \in sess[s].wbal : w[1] = u)[2]
           tx == create_deposit(u, sess[s].amt, nb, sess[s].pay)
       IN /\ ~PendingKey(Key(tx), s)
          /\ IF UniqueViolation(Key(tx))
             THEN /\ Commit(sess[s].wbal, <<>>, {})
                  /\ Finish(s, sess[s], "integrity_error")
             ELSE /\ Commit(sess[s].wbal, <<tx>>, {})
                  /\ Finish(s, sess[s], "ok")
    /\ UNCHANGED calls
    /\ UNCHANGED <<gatevars, appvars>>

\* tx_repo.save(create_deposit(...)) and session.commit
DepositCommit(s) ==
    /\ sess[s].pc = "dsave"
    /\ LET u == sess[s].user
           nb == (CHOOSE w \in sess[s].wbal : w[1] = u)[2]
           tx == create_deposit(u, sess[s].amt, nb, sess[s].pay)
       IN /\ ~PendingKey(Key(tx), s)
          /\ IF UniqueViolation(Key(tx))
             THEN /\ Finish(s, sess[s], "integrity_error")
                  /\ UNCHANGED <<balance, tasks, ledger>>
             ELSE /\ Commit(sess[s].wbal, <<tx>>, {})
                  /\ Finish(s, sess[s], "ok")
    /\ UNCHANGED calls
    /\ UNCHANGED <<gatevars, appvars>>

\* ------------------------------------------------------------------ spec
Next ==
    \/ \E s \in Sessions, u \in Users : CreateCheck(s, u)
    \/ \E s \in Sessions : CreateSave(s)
    \/ \E s \in Sessions, j \in TaskIds : StartProcessing(s, j)
    \/ \E s \in Sessions, j \in TaskIds, tok \in Tokens : CompleteRead(s, j, tok)
    \/ \E s \in Sessions : CompleteDeduct(s)
    \/ \E s \in Sessions : CompleteSaveTx(s)
    \/ \E s \in Sessions : CompleteCommit(s)
    \/ \E s \in Sessions, j \in TaskIds, e \in ErrorCodes : FailTask(s, j, e)
    \/ \E s \in Sessions, j \in TaskIds, u \in Users : GetTask(s, j, u)
    \/ \E s \in Sessions, u \in Users : GetBalance(s, u)
    \/ \E s \in Sessions, j \in TaskIds, u \in Users : RefundRead(s, j, u)
    \/ \E s \in Sessions : RefundAppend(s)
    \/ \E s \in Sessions : RefundCommit(s)
    \/ \E s \in Sessions, u \in Users, a \in DepositAmounts, p \in Payments :
          DepositCredit(s, u, a, p)
    \/ \E s \in Sessions : DepositCommit(s)

Spec == Init /\ [][Next]_vars

\* ------------------------------------------------ RateLimiter.is_allowed
\* now = time.time(); window_start = now - window_seconds
GateBegin(c, k) ==
    /\ gate[c].pc = "idle"
    /\ c = "c1" \/ gate["c1"].pc # "idle"
    /\ checks < MaxChecks
    /\ k \in KnownKeys
    /\ checks' = checks + 1
    /\ gate' = [gate EXCEPT ![c] =
                  [pc |-> "eval", key |-> k, now |-> clock,
                   window_start |-> clock - limit.window_seconds * TicksPerSecond]]
    /\ UNCHANGED <<clock, limit, zset, expire, gret, admitted, retry_at>>
    /\ UNCHANGED <<dbvars, appvars>>

\* redis.eval(lua_script, ...): the whole script is one step of Redis.
GateEval(c, rnd) ==
    /\ gate[c].pc = "eval"
    /\ rnd \in KnownRandoms(gate[c].key, gate[c].now)
    /\ LET k == gate[c].key
           now == gate[c].now
           kept == {m \in zset[k] : ~Stale(Score(m), gate[c].window_start)}
           current == Cardinality(kept)
           window == limit.window_seconds * TicksPerSecond
       IN IF current < limit.max_requests
          THEN /\ zset' = [zset EXCEPT ![k] = kept \cup {Member(now, rnd)}]
               /\ expire' = [expire EXCEPT ![k] = clock + window]
               /\ admitted' = [admitted EXCEPT ![k][now] = @ + 1]
               /\ retry_at' = [retry_at EXCEPT ![k] = NoTime]
               /\ gret' = [key |-> k, now |-> now, is_allowed |-> TRUE,
                           remaining |-> limit.max_requests - current - 1,
                           retry_after |-> 0,
                           resumed |-> retry_at[k] # NoTime /\ now >= retry_at[k],
                           flip |-> ~gret.flip]
          ELSE LET retry_after ==
                       IF kept = {} THEN 0 ELSE ceil(Oldest(kept) + window - now)
                   at == now + retry_after * TicksPerSecond
               IN /\ zset' = [zset EXCEPT ![k] = kept]
                  /\ expire' = [expire EXCEPT ![k] = IF kept = {} THEN NoTime ELSE @]
                  /\ admitted' = admitted
                  /\ retry_at' = [retry_at EXCEPT ![k] =
                                    IF @ = NoTime \/ at < @ THEN at ELSE @]
                  /\ gret' = [key |-> k, now |-> now, is_allowed |-> FALSE,
                              remaining |-> 0, retry_after |-> retry_after,
                              resumed |-> FALSE, flip |-> ~gret.flip]
    /\ gate' = [gate EXCEPT ![c] = GateIdle]
    /\ UNCHANGED <<clock, limit, checks>>
    /\ UNCHANGED <<dbvars, appvars>>

\* Time passes and no key is ever removed.
GateTickNoExpiry ==
    /\ clock < MaxTime
    /\ clock' = clock + 1
    /\ UNCHANGED <<limit, zset, expire, gate, gret, admitted, retry_at, checks>>
    /\ UNCHANGED <<dbvars, appvars>>

\* Time passes; a key whose EXPIRE time is reached is gone.
GateTick ==
    /\ clock < MaxTime
    /\ clock' = clock + 1
    /\ zset' = [k \in GateKeys |->
                  IF expire[k] # NoTime /\ expire[k] <= clock + 1 THEN {} ELSE zset[k]]
    /\ expire' = [k \in GateKeys |->
                    IF expire[k] # NoTime /\ expire[k] <= clock + 1 THEN NoTime
                    ELSE expire[k]]
    /\ UNCHANGED <<limit, gate, gret, admitted, retry_at, checks>>
    /\ UNCHANGED <<dbvars, appvars>>

GateInit ==
    /\ DbStart
    /\ \E m \in Limits, w \in Windows :
          GateStart([max_requests |-> m, window_seconds |-> w])
    /\ AppStart

GateNext ==
    \/ \E c \in Callers, k \in GateKeys : GateBegin(c, k)
    \/ \E c \in Callers, rnd \in Randoms : GateEval(c, rnd)
    \/ GateTick

GateSpec == GateInit /\ [][GateNext]_vars

\* ------------------------------------------------------------ properties
DeductsIn(l, j) ==
    {i \in DOMAIN l : l[i].type = "deduct" /\ Key(l[i]) = <<j, "TASK">>}
RefundsIn(l, j) ==
    {i \in DOMAIN l : l[i].type = "refund" /\ Key(l[i]) = <<j, "TASK_REFUND">>}
DeductsOf(j) == DeductsIn(ledger, j)
RefundsOf(j) == RefundsIn(ledger, j)

RECURSIVE SumUpTo(_, _, _)
SumUpTo(l, u, n) ==
    IF n = 0 THEN 0
    ELSE SumUpTo(l, u, n - 1) + (IF l[n].user = u THEN l[n].amount ELSE 0)
SumAmounts(u) == SumUpTo(ledger, u, Len(ledger))

Returned(op) == ret.op = op

\* The step ends a call.
Returns == ret'.flip # ret.flip

\* C1: for every job the ledger holds at most one DEDUCT transaction keyed
\* (job id, "TASK"), whatever number of complete_task calls run on the job.
C1_AtMostOneDeduct == \A j \in TaskIds : Cardinality(DeductsOf(j)) <= 1

\* A complete_task call that read the job before any DEDUCT for it was
\* committed, deducted the price in its transaction and was then stopped by
\* the unique constraint, because a concurrent call had committed meanwhile.
C1_Witness ==
    /\ Returned("complete") /\ ret.result = "integrity_error"
    /\ ~is_terminal(ret.seen)
    /\ Cardinality(DeductsOf(ret.task)) = 1
    /\ \A i \in DeductsOf(ret.task) : i > ret.era

\* C2: for every job the ledger holds at most one REFUND transaction keyed
\* (job id, "TASK_REFUND"), whatever number of refund_task calls run on it.
C2_AtMostOneRefund == \A j \in TaskIds : Cardinality(RefundsOf(j)) <= 1

\* A refund_task call that found the job READY and billed and began before
\* any REFUND for it was committed; a concurrent call committed the REFUND
\* and this one was stopped at the append.
C2_Witness ==
    /\ Returned("refund") /\ ret.result = "false" /\ ret.amt > 0
    /\ Cardinality(RefundsOf(ret.task)) = 1
    /\ \A i \in RefundsOf(ret.task) : i > ret.era

\* C3: no balance, committed or pending in a transaction, is ever negative.
C3_BalanceNonNegative ==
    /\ \A u \in Users : balance[u] >= 0
    /\ \A s \in Sessions : \A w \in sess[s].wbal : w[2] >= 0

\* A deduction was refused because the balance no longer covered the price.
C3_Witness ==
    /\ Returned("complete") /\ ret.result = "insufficient_balance"
    /\ balance[ret.user] < Price
    /\ \E i \in DOMAIN ledger : ledger[i].user = ret.user /\ ledger[i].type = "deduct"

\* C4: every committed balance equals the initial balance (zero) plus the
\* sum of the signed amounts of the transactions appended for the account.
C4_BalanceMatchesLedger == \A u \in Users : balance[u] = SumAmounts(u)

\* An account that has been credited by two deposits, charged for a job and
\* refunded.
C4_Witness ==
    \E u \in Users :
        /\ Cardinality({i \in DOMAIN ledger :
              ledger[i].user = u /\ ledger[i].type = "deposit"}) = 2
        /\ \E i \in DOMAIN ledger : ledger[i].user = u /\ ledger[i].type = "deduct"
        /\ \E i \in DOMAIN ledger : ledger[i].user = u /\ ledger[i].type = "refund"
        /\ balance[u] > 0

\* C5: in every step the three effects of deduct-on-complete appear together
\* or not at all: a DEDUCT for job j is appended exactly when j is written
\* READY with cost = price and exactly then its owner's balance drops by the
\* price; no balance ever drops otherwise, and a READY job has its DEDUCT.
C5_CompleteAllOrNothing ==
    [][ /\ \A j \in TaskIds :
             LET appended == DeductsIn(ledger', j) # DeductsIn(ledger, j)
                 written ==
                    /\ tasks'[j].status = READY
                    /\ tasks'[j] # tasks[j]
             IN /\ appended <=> written
                /\ appended =>
                     /\ tasks'[j].cost = Round4(Price)
                     /\ balance'[tasks[j].user] =
                            balance[tasks[j].user] - Round4(Price)
        /\ \A u \in Users :
             balance'[u] < balance[u] =>
                \E j \in TaskIds : /\ tasks[j].user = u
                                   /\ DeductsIn(ledger', j) # DeductsIn(ledger, j)
        /\ \A j \in TaskIds : tasks'[j].status = READY => DeductsIn(ledger', j) # {}
      ]_vars

\* A complete_task call has committed: the job is READY with its cost, its
\* DEDUCT is in the ledger and the balance carries the charge.
C5_Witness ==
    /\ Returned("complete") /\ ret.result = "ok"
    /\ tasks[ret.task].status = READY
    /\ tasks[ret.task].cost = Round4(Price)
    /\ Cardinality(DeductsOf(ret.task)) = 1
    /\ balance[ret.user] = SumAmounts(ret.user)

\* C6: a complete_task or fail_task call invoked on a job whose persisted
\* state is READY or FAILED fails (any error outcome counts as the
\* rejection) and changes no balance and no ledger entry.
C6_TerminalCallRejected ==
    [][ ( /\ Returns
          /\ ret'.op \in {"complete", "fail"}
          /\ is_terminal(ret'.seen) )
        => /\ ret'.result # "ok"
           /\ balance' = balance
           /\ ledger' = ledger
      ]_vars

\* C7: once a job is READY or FAILED no step changes its state, token, cost
\* or error.
C7_TerminalIsFinal ==
    [][ \A j \in TaskIds : is_terminal(tasks[j].status) => tasks'[j] = tasks[j] ]_vars

\* C8: of the complete_task / fail_task calls invoked on the same PROCESSING
\* job at most one succeeds: a call that succeeds finds the job still
\* PROCESSING when it commits, and the fields it wrote are the job's fields.
C8_OneWinner ==
    [][ ( /\ Returns
          /\ ret'.op \in {"complete", "fail"}
          /\ ret'.seen = PROCESSING
          /\ ret'.result = "ok" )
        => tasks[ret'.task].status = PROCESSING
      ]_vars

\* C9: every job with cost > 0 is READY and has its DEDUCT transaction, and
\* a non-zero cost is never written again.
C9_CostImpliesReadyAndDeduct ==
    /\ [](\A j \in TaskIds :
            tasks[j].cost > 0 => tasks[j].status = READY /\ DeductsOf(j) # {})
    /\ [][ \A j \in TaskIds : tasks[j].cost # 0 => tasks'[j].cost = tasks[j].cost ]_vars

\* C10: no FAILED job has a DEDUCT transaction or a cost above zero.
C10_FailedNeverBilled ==
    \A j \in TaskIds :
        tasks[j].status = FAILED => DeductsOf(j) = {} /\ tasks[j].cost = 0

\* The step is taken by the call running in session s.
StepOf(s) == sess'[s] # sess[s]

\* C11: a complete_task call that reaches the deduction while the owner's
\* committed balance is below the price ends there with
\* insufficient_balance, and the step changes no job, no balance and no
\* ledger entry and leaves nothing pending in the session; conversely a call
\* that ends with insufficient_balance has changed none of them.
C11_InsufficientBalanceNoEffect ==
    [][ /\ \A s \in Sessions :
             ( /\ sess[s].pc = "deduct"
               /\ StepOf(s)
               /\ balance[sess[s].user] < Price )
             => /\ Returns
                /\ ret'.op = "complete"
                /\ ret'.task = sess[s].task
                /\ ret'.result = "insufficient_balance"
                /\ sess'[s].wbal = {} /\ sess'[s].wtx = <<>>
        /\ ( Returns /\ ret'.op = "complete" /\ ret'.result = "insufficient_balance" )
             => /\ tasks' = tasks
                /\ balance' = balance
                /\ ledger' = ledger
      ]_vars

\* A complete_task call on a PROCESSING job was refused for insufficient
\* balance: the owner could afford the price when the job was admitted and
\* has been charged for a completion since; the job is still PROCESSING.
C11_Witness ==
    /\ Returned("complete") /\ ret.result = "insufficient_balance"
    /\ ret.seen = PROCESSING
    /\ tasks[ret.task].status = PROCESSING
    /\ balance[ret.user] < Price
    /\ \E i \in DOMAIN ledger : ledger[i].user = ret.user /\ ledger[i].type = "deduct"

\* C12: refund is idempotent.  A refund_task call that reaches the append
\* while no REFUND for the job is committed goes on to credit, and its commit
\* raises the owner's balance by exactly the job's cost, appends exactly one
\* REFUND(+cost) and reports true; a refund_task call of the owner that
\* returns while a REFUND for the job is committed reports false and changes
\* neither balance nor ledger.  A refunded job's DEDUCT and REFUND cancel, so completion
\* followed by refunds restores the balance before completion.
C12_RefundIdempotent ==
    /\ [](\A j \in TaskIds :
            RefundsOf(j) # {} =>
               /\ DeductsOf(j) # {}
               /\ \A d \in DeductsOf(j), r \in RefundsOf(j) :
                     /\ ledger[d].amount + ledger[r].amount = 0
                     /\ ledger[d].user = ledger[r].user)
    /\ [][ /\ \A s \in Sessions :
                ( sess[s].pc = "append" /\ StepOf(s) /\ RefundsOf(sess[s].task) = {} )
                => sess'[s].pc = "credit"
           /\ \A s \in Sessions :
                ( sess[s].pc = "credit" /\ StepOf(s) )
                => /\ Returns /\ ret'.op = "refund" /\ ret'.result = "true"
                   /\ ret'.task = sess[s].task
           /\ ( Returns /\ ret'.op = "refund" /\ ret'.result = "true" )
                => /\ ret'.amt > 0
                   /\ RefundsOf(ret'.task) = {}
                   /\ ledger' = Append(ledger,
                         [user |-> ret'.user, type |-> "refund", amount |-> ret'.amt,
                          balance_after |-> 0, reference_id |-> ret'.task,
                          reference_type |-> "TASK_REFUND"])
                   /\ balance' = [balance EXCEPT ![ret'.user] = @ + ret'.amt]
                   /\ \A d \in DeductsOf(ret'.task) : ledger[d].amount = -ret'.amt
           /\ ( /\ Returns /\ ret'.op = "refund"
                 /\ ret'.user = tasks[ret'.task].user
                 /\ RefundsOf(ret'.task) # {} )
                => /\ ret'.result = "false"
                   /\ balance' = balance
                   /\ ledger' = ledger
         ]_vars

\* A job was completed and refunded, and a later refund_task call for it,
\* begun after the REFUND was committed, was stopped at the append: the
\* owner's balance is again the deposit it held before the completion.
C12_Witness ==
    /\ Returned("refund") /\ ret.result = "false" /\ ret.amt > 0
    /\ Cardinality(RefundsOf(ret.task)) = 1
    /\ \A i \in RefundsOf(ret.task) : i <= ret.era
    /\ Cardinality({i \in DOMAIN ledger : ledger[i].user = ret.user}) = 3
    /\ \E a \in DepositAmounts : balance[ret.user] = a

\* C13: in a refund the REFUND append comes before the balance credit: a
\* call that has not passed the append holds no write, a call about to
\* credit holds its REFUND insert and no balance write yet; a call whose
\* append is reported duplicate returns without any balance update; and a
\* balance rises in a step only together with the commit of one transaction
\* of that amount for that account, which for a REFUND is the job's first,
\* so concurrent refund calls for one job credit the balance at most once.
C13_AppendBeforeCredit ==
    /\ [](\A s \in Sessions :
            /\ sess[s].pc = "append" => sess[s].wtx = <<>> /\ sess[s].wbal = {}
            /\ sess[s].pc = "credit" =>
                 /\ sess[s].wbal = {}
                 /\ Len(sess[s].wtx) = 1
                 /\ sess[s].wtx[1].type = "refund"
                 /\ Key(sess[s].wtx[1]) = <<sess[s].task, "TASK_REFUND">>)
    /\ [][ /\ \A s \in Sessions :
                ( sess[s].pc = "append" /\ StepOf(s) /\ RefundsOf(sess[s].task) # {} )
                => /\ Returns /\ ret'.op = "refund" /\ ret'.result = "false"
                   /\ sess'[s].wbal = {}
                   /\ balance' = balance
           /\ \A u \in Users :
                balance'[u] > balance[u] =>
                   /\ Len(ledger') = Len(ledger) + 1
                   /\ LET tx == ledger'[Len(ledger')] IN
                        /\ tx.user = u
                        /\ tx.type \in {"refund", "deposit"}
                        /\ tx.amount = balance'[u] - balance[u]
                        /\ tx.type = "refund" => RefundsOf(tx.reference_id) = {}
         ]_vars

\* Two refund_task calls for one job ran together: one has inserted its
\* REFUND, credited and committed, the other is still at its append and has
\* written nothing; the owner has been credited once.
C13_Witness ==
    /\ Returned("refund") /\ ret.result = "true"
    /\ \E s \in Sessions :
          /\ sess[s].op = "refund" /\ sess[s].pc = "append"
          /\ sess[s].task = ret.task
          /\ sess[s].wbal = {}
    /\ Cardinality(RefundsOf(ret.task)) = 1
    /\ \E a \in DepositAmounts : balance[ret.user] = a

\* The step begins a refund_task(j, u) call.
RefundCalled(j, u) ==
    /\ calls' = calls + 1
    /\ \/ Returns /\ ret'.op = "refund" /\ ret'.task = j /\ ret'.user = u
       \/ \E s \in Sessions :
             /\ StepOf(s) /\ sess'[s].op = "refund"
             /\ sess'[s].task = j /\ sess'[s].user = u

\* C14: a refund_task call by the owner on a job that is not READY or whose
\* cost is zero returns False at once: it raises nothing, and it changes no
\* balance, no ledger entry and no job field and leaves no write pending.
C14_IneligibleRefundNoOp ==
    [][ \A j \in TaskIds, u \in Users :
          ( /\ RefundCalled(j, u)
            /\ tasks[j].user = u
            /\ tasks[j].status # READY \/ tasks[j].cost <= 0 )
          => /\ Returns
             /\ ret'.result = "false"
             /\ balance' = balance
             /\ ledger' = ledger
             /\ tasks' = tasks
             /\ \A s \in Sessions : sess'[s] = sess[s]
      ]_vars

\* refund_task returned False for a job of the caller that was not READY:
\* the job is as it was and it has no REFUND.
C14_Witness ==
    /\ Returned("refund") /\ ret.result = "false"
    /\ ret.seen \in {PENDING, PROCESSING, FAILED}
    /\ ret.amt = 0
    /\ tasks[ret.task].user = ret.user
    /\ tasks[ret.task].status = ret.seen
    /\ RefundsOf(ret.task) = {}

\* report_incorrect: status="success" if success else "already_refunded"
report_incorrect(success) ==
    IF success = "true" THEN "success" ELSE "already_refunded"

\* C15: a refund request that finds the job not READY or with zero cost is
\* not reported as already refunded, and already refunded is reported only
\* when a REFUND transaction for the job exists.
C15_OutcomesDistinguished ==
    [][ ( /\ Returns /\ ret'.op = "refund"
          /\ ret'.result \in {"true", "false"} )
        => /\ ( tasks[ret'.task].status # READY \/ tasks[ret'.task].cost <= 0 )
                => report_incorrect(ret'.result) # "already_refunded"
           /\ report_incorrect(ret'.result) = "already_refunded"
                => RefundsIn(ledger', ret'.task) # {}
      ]_vars

DepositsOf(p) ==
    {i \in DOMAIN ledger : ledger[i].type = "deposit" /\ Key(ledger[i]) = <<p, "PAYMENT">>}

\* C16: for every payment reference at most one DEPOSIT transaction exists;
\* a deposit call that reaches its save while a DEPOSIT of its reference is
\* committed fails and leaves balance and ledger as they were, with no
\* credit pending; otherwise its commit appends the one DEPOSIT of the
\* reference and raises the balance by exactly its amount.
C16_DepositIdempotent ==
    /\ [](\A p \in Payments : Cardinality(DepositsOf(p)) <= 1)
    /\ [][ \A s \in Sessions :
             ( sess[s].pc = "dsave" /\ StepOf(s) )
             => LET p == sess[s].pay
                    u == sess[s].user
                    a == sess[s].amt
                IN /\ Returns /\ ret'.op = "deposit"
                   /\ sess'[s].wbal = {} /\ sess'[s].wtx = <<>>
                   /\ IF DepositsOf(p) # {}
                      THEN /\ ret'.result = "integrity_error"
                           /\ balance' = balance
                           /\ ledger' = ledger
                      ELSE /\ ret'.result = "ok"
                           /\ balance' = [balance EXCEPT ![u] = @ + a]
                           /\ Len(ledger') = Len(ledger) + 1
                           /\ ledger'[Len(ledger')].type = "deposit"
                           /\ ledger'[Len(ledger')].user = u
                           /\ ledger'[Len(ledger')].amount = a
                           /\ Key(ledger'[Len(ledger')]) = <<p, "PAYMENT">>
         ]_vars

\* Two deposit calls carried one payment reference at the same time: the
\* first to commit is the only DEPOSIT in the ledger, the other failed at
\* its save, and the balances hold exactly that one credit.
C16_Witness ==
    /\ Returned("deposit") /\ ret.result = "integrity_error"
    /\ ret.era = 0
    /\ Len(ledger) = 1 /\ ledger[1].type = "deposit"
    /\ \A u \in Users :
          balance[u] = IF ledger[1].user = u THEN ledger[1].amount ELSE 0

\* ------------------------------------------------- rate limiter properties
Window == limit.window_seconds * TicksPerSecond

RECURSIVE SumRange(_, _, _)
SumRange(f, a, b) ==
    IF a > b THEN 0
    ELSE (IF a \in DOMAIN f THEN f[a] ELSE 0) + SumRange(f, a + 1, b)

\* Admitted checks of key k whose timestamps lie in [a, b].
AdmittedIn(k, a, b) == SumRange(admitted[k], a, b)

\* The step is the script run of caller c.
Evaluates(c) == gate[c].pc = "eval" /\ gate'[c].pc = "idle"

\* What the script of caller c finds after dropping the stale entries.
Kept(c) ==
    {m \in zset[gate[c].key] : ~Stale(Score(m), gate[c].window_start)}

\* C17: for every key, the admitted checks whose timestamps lie in one
\* window (an interval [t, t + window_seconds) ) number at most
\* max_requests, checks carrying the same timestamp included; and a check
\* whose script runs at its own timestamp is admitted exactly when fewer
\* than max_requests admitted checks carry a timestamp of its window
\* (now - window_seconds, now]: the first max_requests checks of a window
\* are admitted and the next is rejected.
C17_WindowNeverExceeded ==
    /\ [](\A k \in GateKeys : \A t \in 0..MaxTime :
            AdmittedIn(k, t, t + Window - 1) <= limit.max_requests)
    /\ [][ \A c \in Callers :
             ( Evaluates(c) /\ gate[c].now = clock ) =>
                ( gret'.is_allowed <=>
                    AdmittedIn(gate[c].key, gate[c].now - Window + 1, gate[c].now)
                       < limit.max_requests )
         ]_vars

\* C18: the script is one step that takes one slot: a check is admitted
\* exactly when the key has a free slot (fewer than max_requests live
\* entries), an admitted check leaves the key with one free slot less, and
\* a rejected check leaves the live entries as they are; so of the checks
\* pending on a key with k free slots exactly k are admitted.
C18_OneSlotPerAdmission ==
    [][ \A c \in Callers :
          Evaluates(c) =>
             LET k == gate[c].key
                 free == limit.max_requests - Cardinality(Kept(c))
             IN /\ gret'.is_allowed <=> free > 0
                /\ gret'.is_allowed =>
                      limit.max_requests - Cardinality(zset'[k]) = free - 1
                /\ ~gret'.is_allowed => zset'[k] = Kept(c)
      ]_vars

\* C19: a rejected check returns is_allowed = false, remaining = 0 and a
\* retry_after above zero that is the time from now until the oldest live
\* entry is window_seconds old, rounded up to whole seconds.
C19_RejectedAnswer ==
    [][ \A c \in Callers :
          ( Evaluates(c) /\ ~gret'.is_allowed ) =>
             /\ gret'.remaining = 0
             /\ gret'.retry_after > 0
             /\ Kept(c) # {}
             /\ LET d == Oldest(Kept(c)) + Window - gate[c].now IN
                  /\ d > 0
                  /\ (gret'.retry_after - 1) * TicksPerSecond < d
                  /\ d <= gret'.retry_after * TicksPerSecond
      ]_vars

\* A check was rejected while the oldest live entry had a fraction of a
\* second left in the window: retry_after is that time rounded up.
C19_Witness ==
    /\ gret.key # NoStr /\ ~gret.is_allowed
    /\ gret.remaining = 0
    /\ zset[gret.key] # {}
    /\ LET d == Oldest(zset[gret.key]) + Window - gret.now IN
         /\ d > 0
         /\ d % TicksPerSecond # 0
         /\ gret.retry_after = ceil(d)

\* C20: after a rejection on a key with retry_after = r, and with no
\* admission on the key since, a check whose timestamp is at least r
\* seconds after the rejected one is admitted; and the retry time of a
\* rejection is less than one second after the moment the oldest live
\* entry is window_seconds old.
C20_AdmissionResumes ==
    [][ \A c \in Callers :
          Evaluates(c) =>
             LET k == gate[c].key IN
             /\ ( retry_at[k] # NoTime /\ gate[c].now >= retry_at[k] )
                   => gret'.is_allowed
             /\ ~gret'.is_allowed =>
                   /\ retry_at'[k] # NoTime
                   /\ retry_at'[k] <= gate[c].now + gret'.retry_after * TicksPerSecond
                   /\ retry_at'[k] < Oldest(Kept(c)) + Window + TicksPerSecond
      ]_vars

\* A check that came at or after the retry time of an earlier rejection,
\* with no admission in between, was admitted.
C20_Witness ==
    /\ gret.key # NoStr /\ gret.is_allowed /\ gret.resumed
    /\ retry_at[gret.key] = NoTime

\* C22: start_processing moves a PENDING job to PROCESSING and reports
\* success; invoked on a job that is not PENDING it fails and leaves the job
\* as it was.
C22_StartOnlyFromPending ==
    [][ ( Returns /\ ret'.op = "start" )
        => IF ret'.seen = PENDING
           THEN /\ ret'.result = "true"
                /\ tasks'[ret'.task].status = PROCESSING
           ELSE /\ ret'.result # "true"
                /\ tasks' = tasks
      ]_vars

\* C23: a job becomes READY only from PROCESSING: a complete_task call that
\* found the job PENDING fails, bills nothing and leaves the job as it was,
\* and every step that makes a job READY finds it PROCESSING.
C23_ReadyOnlyFromProcessing ==
    [][ /\ ( Returns /\ ret'.op = "complete" /\ ret'.seen = PENDING )
             => /\ ret'.result # "ok"
                /\ balance' = balance
                /\ ledger' = ledger
                /\ tasks' = tasks
        /\ \A j \in TaskIds :
             ( tasks'[j].status = READY /\ tasks[j].status # READY )
             => tasks[j].status = PROCESSING
      ]_vars

\* C27: no two committed transactions share the pair (reference_id,
\* reference_type); the DEDUCT and the REFUND of one job carry the same
\* reference_id and two different reference_type values, so the constraint
\* stops a job's REFUND insert exactly when a REFUND of the job is committed
\* and a job's DEDUCT insert exactly when a DEDUCT of the job is committed,
\* whatever the other kind holds.
C27_UniqueReferencePair ==
    /\ \A i, k \in DOMAIN ledger : i # k => Key(ledger[i]) # Key(ledger[k])
    /\ \A j \in TaskIds, u \in Users :
          LET d == create_deduct(u, Price, 0, j)
              r == create_refund(u, Price, 0, j)
          IN /\ d.reference_id = r.reference_id
             /\ d.reference_type # r.reference_type
             /\ Key(d) # Key(r)
             /\ UniqueViolation(Key(r)) <=> RefundsOf(j) # {}
             /\ UniqueViolation(Key(d)) <=> DeductsOf(j) # {}

\* A refund_task call inserted the REFUND of a job whose DEDUCT was already
\* committed and has committed it: the ledger holds both under one
\* reference_id.
C27_Witness ==
    /\ Returned("refund") /\ ret.result = "true"
    /\ \E d \in DeductsOf(ret.task), r \in RefundsOf(ret.task) :
          /\ d <= ret.era /\ r > ret.era
          /\ ledger[d].reference_id = ledger[r].reference_id
          /\ ledger[d].reference_type # ledger[r].reference_type

\* C30: every transaction's balance_after is its account's balance right
\* after the transaction's amount was applied, that is the sum of the
\* account's amounts up to and including it, for DEDUCT, REFUND and DEPOSIT
\* entries alike.
C30_BalanceAfterIsBalance ==
    \A i \in DOMAIN ledger :
        ledger[i].balance_after = SumUpTo(ledger, ledger[i].user, i)

\* C26: a billing insert that meets a committed transaction of its key (a
\* second DEDUCT of a job, a second DEPOSIT of a payment reference, a second
\* REFUND of a job) ends the call with a duplicate outcome, never with the
\* storage layer's integrity error, and leaves the ledger unchanged.
C26_DuplicateIsAnOutcome ==
    [][ \A s \in Sessions :
          ( /\ StepOf(s)
            /\ \/ sess[s].pc = "savetx" /\ DeductsOf(sess[s].task) # {}
               \/ sess[s].pc = "dsave" /\ DepositsOf(sess[s].pay) # {}
               \/ sess[s].pc = "append" /\ RefundsOf(sess[s].task) # {} )
          => /\ Returns
             /\ ret'.result # "integrity_error"
             /\ ledger' = ledger
      ]_vars

\* C24: a get_task or refund_task call made for an account that does not
\* own the job returns not found and changes no balance, no ledger entry
\* and no job; every REFUND in the ledger is credited to the owner of its
\* job, who holds the job's DEDUCT of the same amount, and a step that
\* commits a REFUND raises the owner's balance and no other.
C24_OwnerOnly ==
    /\ [](\A i \in DOMAIN ledger :
            ledger[i].type = "refund" =>
               LET j == ledger[i].reference_id IN
                 /\ ledger[i].user = tasks[j].user
                 /\ \E d \in DeductsOf(j) :
                       /\ ledger[d].user = ledger[i].user
                       /\ ledger[d].amount = -ledger[i].amount)
    /\ [][ /\ ( /\ Returns
                /\ ret'.op \in {"get", "refund"}
                /\ tasks[ret'.task].user # ret'.user )
              => /\ ret'.result = "not_found"
                 /\ balance' = balance
                 /\ ledger' = ledger
                 /\ tasks' = tasks
           /\ \A j \in TaskIds :
                RefundsIn(ledger', j) # RefundsIn(ledger, j) =>
                   \A u \in Users \ {tasks[j].user} : balance'[u] = balance[u]
         ]_vars

\* The account that does not own a READY, billed and never refunded job
\* asked for its refund and got not found; the owner's balance still carries
\* the charge.
C24_Witness ==
    /\ Returned("refund") /\ ret.result = "not_found"
    /\ tasks[ret.task].status = READY
    /\ tasks[ret.task].cost > 0
    /\ tasks[ret.task].user \in Users \ {ret.user}
    /\ DeductsOf(ret.task) # {}
    /\ RefundsOf(ret.task) = {}
    /\ balance[ret.user] = SumAmounts(ret.user)
    /\ balance[tasks[ret.task].user] = SumAmounts(tasks[ret.task].user)

\* ------------------------------------------------------------ Task entity
\* The result of an entity method: the entity after the call and the
\* exception raised, if any.
Done(self) == [self |-> self, raised |-> NoStr]
Raise(self, exc) == [self |-> self, raised |-> exc]

transition_to(self, new_status) ==
    IF ~can_transition_to(self.status, new_status)
    THEN Raise(self, InvalidStateTransitionError)
    ELSE Done([self EXCEPT !.status = new_status])

start_processing(self, utcnow) ==
    LET r == transition_to(self, PROCESSING) IN
    IF r.raised # NoStr THEN r
    ELSE Done([r.self EXCEPT !.started_at = utcnow])

complete(self, token, cost, utcnow) ==
    LET r == transition_to(self, READY) IN
    IF r.raised # NoStr THEN r
    ELSE Done([r.self EXCEPT !.token = token, !.cost = cost,
                             !.completed_at = utcnow])

fail(self, error_code, error_desc, utcnow) ==
    LET r == transition_to(self, FAILED) IN
    IF r.raised # NoStr THEN r
    ELSE Done([r.self EXCEPT !.error_code = error_code,
                             !.error_desc = error_desc,
                             !.completed_at = utcnow])

Statuses == {PENDING, PROCESSING, READY, FAILED}

\* Entities a caller can hold: a new one, or one that TaskRepository._to_entity
\* built from a stored row.
LoadedEntities ==
    {NewEntity} \cup
    [status : Statuses \ {PENDING}, token : Tokens \cup {NoStr},
     cost : {0, Price}, error_code : ErrorCodes \cup {NoStr},
     error_desc : Descriptions \cup {NoStr},
     started_at : Instants \cup {NoTime}, completed_at : Instants \cup {NoTime}]

Called(method, target, r) ==
    /\ entity' = [self |-> r.self,
                  call |-> [method |-> method, target |-> target,
                            raised |-> r.raised, flip |-> ~entity.call.flip]]
    /\ UNCHANGED <<dbvars, gatevars, account, queue, credential>>

TaskTransitionTo(new_status) ==
    Called("transition_to", new_status, transition_to(entity.self, new_status))

TaskStartProcessing(utcnow) ==
    Called("start_processing", PROCESSING, start_processing(entity.self, utcnow))

TaskComplete(token, cost, utcnow) ==
    Called("complete", READY, complete(entity.self, token, cost, utcnow))

TaskFail(error_code, error_desc, utcnow) ==
    Called("fail", FAILED, fail(entity.self, error_code, error_desc, utcnow))

EntityInit ==
    /\ DbStart
    /\ GateStart([max_requests |-> rate_limit_per_minute,
                  window_seconds |-> window_seconds])
    /\ \E e \in LoadedEntities : entity = [self |-> e, call |-> NoCall]
    /\ AccountStart
    /\ QueueStart
    /\ CredentialStart

EntityNext ==
    \/ \E st \in Statuses : TaskTransitionTo(st)
    \/ \E t \in Instants : TaskStartProcessing(t)
    \/ \E tok \in Tokens, t \in Instants : TaskComplete(tok, Price, t)
    \/ \E e \in ErrorCodes, d \in Descriptions \cup {NoStr}, t \in Instants :
          TaskFail(e, d, t)

EntitySpec == EntityInit /\ [][EntityNext]_vars

\* The step is a call of an entity method.
EntityCalled == entity'.call.flip # entity.call.flip

\* C28: transition_to, and start_processing, complete and fail built on it,
\* change the status exactly for PENDING -> PROCESSING, PENDING -> FAILED,
\* PROCESSING -> READY and PROCESSING -> FAILED, and then write their own
\* fields and nothing else; for every other pair of current and target
\* status, every self-loop and every transition out of READY or FAILED
\* included, the call raises InvalidStateTransitionError and leaves status,
\* token, cost, error fields and timestamps as they were.
C28_ExactlyFourTransitions ==
    [][ EntityCalled =>
          LET old == entity.self
              new == entity'.self
              c == entity'.call
              permitted ==
                 <<old.status, c.target>> \in
                    {<<PENDING, PROCESSING>>, <<PENDING, FAILED>>,
                     <<PROCESSING, READY>>, <<PROCESSING, FAILED>>}
          IN IF permitted
             THEN /\ c.raised = NoStr
                  /\ new.status = c.target
                  /\ c.method = "transition_to" =>
                        new = [old EXCEPT !.status = c.target]
                  /\ c.method = "start_processing" =>
                        /\ new.started_at \in Instants
                        /\ new = [old EXCEPT !.status = PROCESSING,
                                             !.started_at = new.started_at]
                  /\ c.method = "complete" =>
                        /\ new.token \in Tokens /\ new.cost = Price
                        /\ new.completed_at \in Instants
                        /\ new = [old EXCEPT !.status = READY,
                                             !.token = new.token,
                                             !.cost = new.cost,
                                             !.completed_at = new.completed_at]
                  /\ c.method = "fail" =>
                        /\ new.error_code \in ErrorCodes
                        /\ new.completed_at \in Instants
                        /\ new = [old EXCEPT !.status = FAILED,
                                             !.error_code = new.error_code,
                                             !.error_desc = new.error_desc,
                                             !.completed_at = new.completed_at]
             ELSE /\ c.raised = InvalidStateTransitionError
                  /\ new = old
      ]_vars

\* complete was called on an entity that is already READY: the call raised
\* and the entity still carries the token, cost and timestamps it had.
C28_Witness ==
    /\ entity.call.method = "complete"
    /\ entity.call.raised = InvalidStateTransitionError
    /\ entity.self.status = READY
    /\ entity.self.token \in Tokens
    /\ entity.self.cost = Price
    /\ entity.self.completed_at \in Instants

\* ------------------------------------------------- update_balance_atomic
\* UPDATE users SET balance = balance + :amount WHERE id = :id
\* [AND balance >= abs(:amount)] RETURNING balance; row is None -> None
update_balance_atomic(rows, user_id, amount) ==
    IF rows[user_id] # NoRow /\ BalanceAllows(rows[user_id], amount)
    THEN [rows |-> [rows EXCEPT ![user_id] = NewBalance(@, amount)],
          value |-> NewBalance(rows[user_id], amount)]
    ELSE [rows |-> rows, value |-> None]

\* BillingService.deduct_balance up to the raise.
deduct_balance(rows, user_id, amount) ==
    LET r == update_balance_atomic(rows, user_id, -Abs(amount)) IN
    IF r.value = None
    THEN [rows |-> r.rows, value |-> None, raised |-> InsufficientBalanceError]
    ELSE [rows |-> r.rows, value |-> r.value, raised |-> NoStr]

\* Tables a call can meet: every id has a row or not.
AccountInit ==
    /\ DbStart
    /\ GateStart([max_requests |-> rate_limit_per_minute,
                  window_seconds |-> window_seconds])
    /\ EntityStart
    /\ QueueStart
    /\ CredentialStart
    /\ \E rows \in [AccountIds -> {NoRow, 0}] :
          account = [rows |-> rows, call |-> NoAccountCall]

UpdateBalanceAtomic(user_id, amount) ==
    /\ account.call.n < MaxCalls
    /\ LET r == update_balance_atomic(account.rows, user_id, amount) IN
       account' = [rows |-> r.rows,
                   call |-> [op |-> "update_balance_atomic", user_id |-> user_id,
                             amount |-> amount, value |-> r.value,
                             raised |-> NoStr, n |-> account.call.n + 1]]
    /\ UNCHANGED <<dbvars, gatevars, entity, queue, credential>>

DeductBalance(user_id, amount) ==
    /\ account.call.n < MaxCalls
    /\ LET r == deduct_balance(account.rows, user_id, amount) IN
       account' = [rows |-> r.rows,
                   call |-> [op |-> "deduct_balance", user_id |-> user_id,
                             amount |-> -Abs(amount), value |-> r.value,
                             raised |-> r.raised, n |-> account.call.n + 1]]
    /\ UNCHANGED <<dbvars, gatevars, entity, queue, credential>>

AccountNext ==
    \/ \E a \in AccountIds, x \in Amounts : UpdateBalanceAtomic(a, x)
    \/ \E a \in AccountIds : DeductBalance(a, Price)

AccountSpec == AccountInit /\ [][AccountNext]_vars

\* C25: with a negative amount update_balance_atomic gives a missing account
\* and an account whose balance is too small two different outcomes, and
\* deduct_balance never reports insufficient balance for an account that
\* does not exist.
C25_MissingAccountDistinguished ==
    /\ [](\A a, b \in AccountIds :
            ( /\ account.rows[a] = NoRow
              /\ account.rows[b] # NoRow
              /\ ~BalanceAllows(account.rows[b], -Price) )
            => update_balance_atomic(account.rows, a, -Price).value
                  # update_balance_atomic(account.rows, b, -Price).value)
    /\ [][ ( /\ account'.call.n # account.call.n
             /\ account'.call.op = "deduct_balance"
             /\ account.rows[account'.call.user_id] = NoRow )
           => account'.call.raised # InsufficientBalanceError
         ]_vars

\* ------------------------------------------------ POST /createTask route
\* A check that lets the request through when the limiter cannot answer.
check_rate_limit_fail_open(answer) ==
    IF answer = "limited" THEN "RateLimitExceededError" ELSE NoStr

\* check_rate_limit: the exception it ends with, if any.  An exception of
\* redis.eval passes through is_allowed and check_rate_limit unhandled.
check_rate_limit(answer) ==
    IF answer = "allowed" THEN NoStr
    ELSE IF answer = "limited" THEN "RateLimitExceededError"
    ELSE answer

\* The except clauses of create_task, in their order.
create_task_except(exc) ==
    IF exc = "RateLimitExceededError" THEN "ERROR_RATE_LIMIT"
    ELSE IF exc = "InvalidApiKeyError" THEN "ERROR_KEY_DOES_NOT_EXIST"
    ELSE IF exc = InsufficientBalanceError THEN "ERROR_ZERO_BALANCE"
    ELSE "ERROR_INTERNAL"

\* user_repo.get_by_hashed_api_key(hash_api_key(api_key))
get_by_hashed_api_key(api_key) ==
    IF api_key = "sk_live_u1" THEN "u1"
    ELSE IF api_key = "sk_live_u2" THEN "u2"
    ELSE NoStr

\* The request arrives and rate_limiter.is_allowed returns or raises.  What
\* the request carries is put down when the route first looks at it.
RouteIsAllowed(s, answer) ==
    /\ Free(s)
    /\ FreeIds # {}
    /\ calls' = calls + 1
    /\ Continue(s, [Call(s, "createTask") EXCEPT
                      !.pc = "r_gate", !.req.answer = answer])
    /\ UNCHANGED <<balance, tasks, ledger>>
    /\ UNCHANGED <<gatevars, appvars>>

\* check_rate_limit: if not is_allowed: raise RateLimitExceededError
RouteCheckRateLimit(s) ==
    /\ sess[s].pc = "r_gate"
    /\ LET exc == check_rate_limit(sess[s].req.answer) IN
       IF exc # NoStr
       THEN Finish(s, sess[s], create_task_except(exc))
       ELSE Continue(s, [sess[s] EXCEPT !.pc = "r_auth"])
    /\ UNCHANGED <<balance, tasks, ledger, calls>>
    /\ UNCHANGED <<gatevars, appvars>>

\* authenticate_by_api_key and request.get_validated_task
RouteAuthenticate(s, api_key, task_valid) ==
    /\ sess[s].pc = "r_auth"
    /\ LET user == get_by_hashed_api_key(api_key)
           r == [sess[s] EXCEPT !.req.clientKey = api_key,
                                !.req.task_valid = task_valid]
       IN IF user = NoStr
          THEN Finish(s, r, create_task_except("InvalidApiKeyError"))
          ELSE IF ~task_valid
          THEN Finish(s, [r EXCEPT !.user = user], "ERROR_INVALID_TASK_TYPE")
          ELSE Continue(s, [r EXCEPT !.pc = "r_check", !.user = user])
    /\ UNCHANGED <<balance, tasks, ledger, calls>>
    /\ UNCHANGED <<gatevars, appvars>>

\* TaskService.create_task: user_repo.get_by_id and the can_afford check.
RouteCreateCheck(s) ==
    /\ sess[s].pc = "r_check"
    /\ IF can_afford(balance[sess[s].user], Price)
       THEN Continue(s, [sess[s] EXCEPT !.pc = "r_save"])
       ELSE Finish(s, sess[s], create_task_except(InsufficientBalanceError))
    /\ UNCHANGED <<balance, tasks, ledger, calls>>
    /\ UNCHANGED <<gatevars, appvars>>

\* create_task that leaves its INSERT uncommitted when it returns the task:
\* no other session sees the row.
RouteCreateSaveUncommitted(s) ==
    /\ sess[s].pc = "r_save"
    /\ FreeIds # {}
    /\ Continue(s, [sess[s] EXCEPT !.pc = "r_enqueue", !.task = FreshId])
    /\ UNCHANGED <<balance, tasks, ledger, calls>>
    /\ UNCHANGED <<gatevars, appvars>>

\* TaskService.create_task: Task.create, task_repo.save and session.commit.
RouteCreateSave(s) ==
    /\ sess[s].pc = "r_save"
    /\ FreeIds # {}
    /\ tasks' = [tasks EXCEPT ![FreshId] = NewTask(sess[s].user)]
    /\ Continue(s, [sess[s] EXCEPT !.pc = "r_enqueue", !.task = FreshId])
    /\ UNCHANGED <<balance, ledger, calls>>
    /\ UNCHANGED <<gatevars, appvars>>

\* redis.enqueue_job("solve_captcha_task", str(task.id)), which adds the job
\* or raises.
RouteEnqueue(s, up) ==
    /\ sess[s].pc = "r_enqueue"
    /\ IF up
       THEN /\ queue' = [queue EXCEPT ![sess[s].task].jobs = @ + 1]
            /\ Finish(s, sess[s], "ok")
       ELSE /\ queue' = queue
            /\ Finish(s, sess[s], create_task_except("ConnectionError"))
    /\ UNCHANGED <<balance, tasks, ledger, calls>>
    /\ UNCHANGED <<gatevars, entity, account, credential>>

RouteNext ==
    \/ \E s \in Sessions, a \in GateAnswers : RouteIsAllowed(s, a)
    \/ \E s \in Sessions : RouteCheckRateLimit(s)
    \/ \E s \in Sessions, k \in ApiKeys, v \in BOOLEAN :
          RouteAuthenticate(s, k, v)
    \/ \E s \in Sessions : RouteCreateCheck(s)
    \/ \E s \in Sessions : RouteCreateSave(s)
    \/ \E s \in Sessions, up \in BOOLEAN : RouteEnqueue(s, up)

\* The accounts in funded have made one deposit each; nothing else has
\* happened.
Funded(funded) ==
    /\ balance = [u \in Users |->
                    IF u \in funded THEN NewBalance(0, 500) ELSE 0]
    /\ ledger =
          (IF "u1" \in funded
           THEN <<create_deposit("u1", 500, NewBalance(0, 500), 1)>> ELSE <<>>)
          \o (IF "u2" \in funded
              THEN <<create_deposit("u2", 500, NewBalance(0, 500), 2)>> ELSE <<>>)
    /\ tasks = [j \in TaskIds |-> NoTask]
    /\ sess = [s \in Sessions |-> Idle]
    /\ ret = NoReturn
    /\ calls = 0

RouteInit ==
    /\ \E funded \in {{}, {"u1"}} : Funded(funded)
    /\ GateStart([max_requests |-> rate_limit_per_minute,
                  window_seconds |-> window_seconds])
    /\ AppStart

RouteSpec == RouteInit /\ [][RouteNext]_vars

\* C21: a createTask request whose rate limiter check raised instead of
\* answering is rejected at that step with an error that is neither success
\* nor the rate limit error, and the step stores no job and enqueues
\* nothing; a request is past the check only if the limiter allowed it, so
\* jobs are stored and enqueued for allowed requests only.
C21_GateFailureRejects ==
    /\ [](\A s \in Sessions :
            ( sess[s].op = "createTask" /\ sess[s].pc # "r_gate" )
            => sess[s].req.answer = "allowed")
    /\ [][ /\ \A s \in Sessions :
                ( /\ sess[s].pc = "r_gate"
                  /\ StepOf(s)
                  /\ sess[s].req.answer \notin {"allowed", "limited"} )
                => /\ Returns
                   /\ ret'.op = "createTask"
                   /\ ret'.req = sess[s].req
                   /\ ret'.result \notin {"ok", "ERROR_RATE_LIMIT"}
                   /\ tasks' = tasks
                   /\ queue' = queue
           /\ ( tasks' # tasks \/ queue' # queue )
                => \E s \in Sessions :
                      /\ StepOf(s)
                      /\ sess[s].op = "createTask"
                      /\ sess[s].req.answer = "allowed"
         ]_vars

\* A request met a rate limiter that raised and got the internal error
\* before its key was looked at, while an account could afford a job: no job
\* exists and nothing is enqueued.
C21_Witness ==
    /\ Returned("createTask")
    /\ ret.req.answer = "ConnectionError"
    /\ ret.req.clientKey = NoStr
    /\ ret.result = "ERROR_INTERNAL"
    /\ \E u \in Users : can_afford(balance[u], Price)
    /\ \A j \in TaskIds : tasks[j].status = ABSENT /\ queue[j].jobs = 0

\* ------------------------------------------------- solve_captcha_task
\* The handler runs in the AsyncSession s of its worker.  Jobs of different
\* tasks run side by side; the job of one task runs in one worker at a time.
Running(j) == \E o \in Sessions : sess[o].op = "solve" /\ sess[o].task = j

JobDone(j) == queue' = [queue EXCEPT ![j].jobs = @ - 1]

\* arq starts the job; task_service.get_task_by_id.
Deliver(s, j) ==
    /\ Free(s)
    /\ queue[j].jobs > 0
    /\ ~Running(j)
    /\ queue[j].job_try < max_tries
    /\ calls' = calls + 1
    /\ queue' = [queue EXCEPT ![j].job_try = @ + 1]
    /\ LET c == [Call(s, "solve") EXCEPT !.task = j, !.user = tasks[j].user,
                                         !.seen = tasks[j].status] IN
       IF tasks[j].status = ABSENT
       THEN Continue(s, [c EXCEPT !.pc = "h_except"])
       ELSE Continue(s, [c EXCEPT !.pc = "h_start"])
    /\ UNCHANGED <<balance, tasks, ledger>>
    /\ UNCHANGED <<gatevars, entity, account, credential>>

\* arq gives a job up once it has been started max_tries times.
WorkerGiveUp(j) ==
    /\ queue[j].jobs > 0
    /\ ~Running(j)
    /\ queue[j].job_try >= max_tries
    /\ JobDone(j)
    /\ UNCHANGED <<dbvars, gatevars, entity, account, credential>>

\* task_service.start_processing(task_id)
HandlerStart(s) ==
    /\ sess[s].pc = "h_start"
    /\ Commit({}, <<>>, {StatusUpdate(sess[s].task, PROCESSING, NoStr, NoCost, NoStr)})
    /\ Continue(s, [sess[s] EXCEPT !.pc = "h_solve"])
    /\ UNCHANGED calls
    /\ UNCHANGED <<gatevars, appvars>>

\* get_browser_pool, new_context, new_page and solver.solve: a token, a
\* result without success, or an exception.
HandlerSolve(s, outcome) ==
    /\ sess[s].pc = "h_solve"
    /\ IF outcome \in Tokens
       THEN Continue(s, [sess[s] EXCEPT !.pc = "h_deduct", !.token = outcome])
       ELSE IF outcome = "CAPTCHA_UNSOLVABLE"
       THEN Continue(s, [sess[s] EXCEPT !.pc = "h_fail"])
       ELSE Continue(s, [sess[s] EXCEPT !.pc = "h_except"])
    /\ UNCHANGED <<balance, tasks, ledger, calls>>
    /\ UNCHANGED <<gatevars, appvars>>

\* complete_task: get_by_id and deduct_balance's update_balance_atomic; an
\* exception is rolled back and raised on to the handler.
HandlerDeduct(s) ==
    /\ sess[s].pc = "h_deduct"
    /\ ~LockedUser(sess[s].user, s)
    /\ LET u == sess[s].user IN
       IF BalanceAllows(balance[u], -Abs(Price))
       THEN Continue(s, [sess[s] EXCEPT
                           !.pc = "h_savetx",
                           !.wbal = {<<u, NewBalance(balance[u], -Abs(Price))>>}])
       ELSE Continue(s, [sess[s] EXCEPT !.pc = "h_except"])
    /\ UNCHANGED <<balance, tasks, ledger, calls>>
    /\ UNCHANGED <<gatevars, appvars>>

\* complete_task: deduct_balance's tx_repo.save
HandlerSaveTx(s) ==
    /\ sess[s].pc = "h_savetx"
    /\ LET u == sess[s].user
           nb == (CHOOSE w \in sess[s].wbal : w[1] = u)[2]
           tx == create_deduct(u, Price, nb, sess[s].task)
       IN /\ ~PendingKey(Key(tx), s)
          /\ IF UniqueViolation(Key(tx))
             THEN Continue(s, [sess[s] EXCEPT !.pc = "h_except", !.wbal = {}])
             ELSE Continue(s, [sess[s] EXCEPT !.pc = "h_update", !.wtx = Append(@, tx)])
    /\ UNCHANGED <<balance, tasks, ledger, calls>>
    /\ UNCHANGED <<gatevars, appvars>>

\* complete_task: update_status(READY, token, cost) and session.commit
HandlerCommit(s) ==
    /\ sess[s].pc = "h_update"
    /\ Commit(sess[s].wbal, sess[s].wtx,
              {StatusUpdate(sess[s].task, READY, sess[s].token, Price, NoStr)})
    /\ Continue(s, [sess[s] EXCEPT !.pc = "h_close", !.wbal = {}, !.wtx = <<>>,
                                   !.amt = Price])
    /\ UNCHANGED calls
    /\ UNCHANGED <<gatevars, appvars>>

\* fail_task(task_id, result.error_code or "CAPTCHA_UNSOLVABLE", ...)
HandlerFail(s) ==
    /\ sess[s].pc = "h_fail"
    /\ Commit({}, <<>>,
              {StatusUpdate(sess[s].task, FAILED, NoStr, NoCost, "CAPTCHA_UNSOLVABLE")})
    /\ Continue(s, [sess[s] EXCEPT !.pc = "h_close"])
    /\ UNCHANGED calls
    /\ UNCHANGED <<gatevars, appvars>>

\* finally: page.close(), the context is left and the handler returns; an
\* exception on the way goes to the handler's except clause.
HandlerClose(s, closed) ==
    /\ sess[s].pc = "h_close"
    /\ IF closed
       THEN /\ Finish(s, sess[s], IF sess[s].amt > 0 THEN "success" ELSE "failed")
            /\ JobDone(sess[s].task)
       ELSE /\ Continue(s, [sess[s] EXCEPT !.pc = "h_except"])
            /\ queue' = queue
    /\ UNCHANGED <<balance, tasks, ledger, calls>>
    /\ UNCHANGED <<gatevars, entity, account, credential>>

\* An except clause that reports the failure and writes nothing.
HandlerExceptReturnsOnly(s) ==
    /\ sess[s].pc = "h_except"
    /\ Finish(s, sess[s], "failed")
    /\ JobDone(sess[s].task)
    /\ UNCHANGED <<balance, tasks, ledger, calls>>
    /\ UNCHANGED <<gatevars, entity, account, credential>>

\* except Exception: fail_task(task_id, "INTERNAL_ERROR", str(e)[:500]),
\* whose own exception is passed over, and the handler returns.
HandlerExcept(s) ==
    /\ sess[s].pc = "h_except"
    /\ Commit({}, <<>>,
              {StatusUpdate(sess[s].task, FAILED, NoStr, NoCost, "INTERNAL_ERROR")})
    /\ Finish(s, sess[s], "failed")
    /\ JobDone(sess[s].task)
    /\ UNCHANGED calls
    /\ UNCHANGED <<gatevars, entity, account, credential>>

\* The worker is shut down or the job is cancelled while the handler waits:
\* what is not committed is rolled back and the job stays in the queue.
WorkerCancel(s) ==
    /\ sess[s].op = "solve"
    /\ sess' = [sess EXCEPT ![s] = Idle]
    /\ UNCHANGED <<balance, tasks, ledger, ret, calls>>
    /\ UNCHANGED <<gatevars, appvars>>

\* The accounts are funded, every task has been created by its owner and
\* its job is in the queue.
WorkerInit ==
    /\ \E owner \in [TaskIds -> {"u1"}] :
          /\ balance = [u \in Users |-> IF u = "u1" THEN NewBalance(0, 500) ELSE 0]
          /\ ledger = <<create_deposit("u1", 500, NewBalance(0, 500), 1)>>
          /\ tasks = [j \in TaskIds |-> NewTask(owner[j])]
    /\ sess = [s \in Sessions |-> Idle]
    /\ ret = NoReturn
    /\ calls = 0
    /\ GateStart([max_requests |-> rate_limit_per_minute,
                  window_seconds |-> window_seconds])
    /\ EntityStart
    /\ AccountStart
    /\ CredentialStart
    /\ queue = [j \in TaskIds |-> [jobs |-> 1, job_try |-> 0]]

WorkerNext ==
    \/ \E s \in Sessions, j \in TaskIds : Deliver(s, j)
    \/ \E j \in TaskIds : WorkerGiveUp(j)
    \/ \E s \in Sessions : HandlerStart(s)
    \/ \E s \in Sessions, o \in Tokens \cup ErrorCodes : HandlerSolve(s, o)
    \/ \E s \in Sessions : HandlerDeduct(s)
    \/ \E s \in Sessions : HandlerSaveTx(s)
    \/ \E s \in Sessions : HandlerCommit(s)
    \/ \E s \in Sessions : HandlerFail(s)
    \/ \E s \in Sessions, closed \in BOOLEAN : HandlerClose(s, closed)
    \/ \E s \in Sessions : HandlerExcept(s)
    \/ \E s \in Sessions : WorkerCancel(s)

WorkerSpec == WorkerInit /\ [][WorkerNext]_vars

\* C29: a delivery of solve_captcha_task that finds the job READY or FAILED,
\* settled by an earlier delivery, changes neither the job's state, token,
\* cost and error nor any balance, and appends no transaction.
C29_RedeliveryNoEffect ==
    [][ \A s \in Sessions :
          ( /\ sess[s].op = "solve"
            /\ StepOf(s)
            /\ is_terminal(sess[s].seen) )
          => /\ tasks'[sess[s].task] = tasks[sess[s].task]
             /\ balance' = balance
             /\ ledger' = ledger
      ]_vars

\* The step belongs to a call of operation op.
StepOfOp(op) ==
    \/ Returns /\ ret'.op = op
    \/ \E s \in Sessions : StepOf(s) /\ sess'[s].op = op

\* The sum of the amounts that the step appends to the ledger for account u.
Appended(u) ==
    SumUpTo(ledger', u, Len(ledger')) - SumUpTo(ledger, u, Len(ledger))

\* C31: a balance changes only in the step that commits a transaction of the
\* same account and the same signed amount, and every transaction is
\* committed in the step that changes its account's balance by its amount;
\* the ledger only grows, one transaction at a time; the steps of
\* create_task, start_processing, fail_task, get_task and get_balance change
\* no balance and append no transaction.
C31_BalanceOnlyWithTransaction ==
    [][ /\ Len(ledger') \in {Len(ledger), Len(ledger) + 1}
        /\ SubSeq(ledger', 1, Len(ledger)) = ledger
        /\ \A u \in Users : balance'[u] - balance[u] = Appended(u)
        /\ Len(ledger') = Len(ledger) + 1 =>
              LET tx == ledger'[Len(ledger')] IN
                /\ tx.amount # 0
                /\ balance' = [balance EXCEPT ![tx.user] = @ + tx.amount]
        /\ \A op \in {"create", "start", "fail", "get", "balance"} :
              StepOfOp(op) => balance' = balance /\ ledger' = ledger
      ]_vars

\* get_balance returned the balance of an account that was credited by a
\* deposit and charged for a job: the value is the deposit less the price,
\* and the ledger holds both transactions.
C31_Witness ==
    /\ Returned("balance") /\ ret.result = "ok"
    /\ ret.amt = balance[ret.user]
    /\ ret.amt = NewBalance(NewBalance(0, 500), -Price)
    /\ \E i, k \in DOMAIN ledger :
          /\ ledger[i].user = ret.user /\ ledger[i].type = "deposit"
          /\ ledger[k].user = ret.user /\ ledger[k].type = "deduct"

\* C32: in createTask the rate limiter check comes first, then the job is
\* committed PENDING, then its id is enqueued: a request is at the enqueue
\* only with an allowed check and its job committed PENDING and not yet
\* enqueued; every id in the queue is the id of a committed job; the queue
\* changes only by the enqueue step of such a request, which adds the id
\* once; and a createTask that returns success leaves its job committed
\* PENDING and enqueued exactly once.
C32_CommitBeforeEnqueue ==
    /\ [](/\ \A j \in TaskIds :
               /\ queue[j].jobs > 0 => tasks[j].status # ABSENT
               /\ queue[j].jobs <= 1
          /\ \A s \in Sessions :
               /\ sess[s].pc \in {"r_gate", "r_auth", "r_check", "r_save"}
                     => sess[s].task = 0
               /\ sess[s].pc \in {"r_save", "r_enqueue"}
                     => sess[s].req.answer = "allowed"
               /\ sess[s].pc = "r_enqueue"
                     => /\ tasks[sess[s].task].status = PENDING
                        /\ queue[sess[s].task].jobs = 0)
    /\ [][ /\ queue' # queue =>
                \E s \in Sessions :
                   /\ sess[s].pc = "r_enqueue" /\ StepOf(s)
                   /\ tasks[sess[s].task].status = PENDING
                   /\ tasks' = tasks
                   /\ queue' = [queue EXCEPT ![sess[s].task].jobs = 1]
                   /\ Returns /\ ret'.result = "ok" /\ ret'.task = sess[s].task
           /\ ( Returns /\ ret'.op = "createTask" /\ ret'.result = "ok" )
                => /\ ret'.req.answer = "allowed"
                   /\ tasks'[ret'.task].status = PENDING
                   /\ queue[ret'.task].jobs = 0
                   /\ queue'[ret'.task].jobs = 1
         ]_vars

\* One createTask has returned success, its job is PENDING and enqueued
\* once; a second request has committed its job and has not enqueued it yet.
C32_Witness ==
    /\ Returned("createTask") /\ ret.result = "ok"
    /\ tasks[ret.task].status = PENDING
    /\ queue[ret.task].jobs = 1
    /\ \E s \in Sessions :
          /\ sess[s].pc = "r_enqueue"
          /\ sess[s].task # ret.task
          /\ tasks[sess[s].task].status = PENDING
          /\ queue[sess[s].task].jobs = 0

\* C33: a createTask request ends with the rate limit error at the rate
\* limiter check, with the invalid task error at the validation and with
\* the zero balance error at the admission check of an account whose
\* balance is below the price, each time before create_task has stored
\* anything: the request has no job, and the step stores no job and
\* enqueues nothing.  A job is stored only by a request whose rate limiter
\* check was allowed, whose key is an account's, whose task parameters are
\* valid and whose account's balance covers the price.
C33_RejectedPersistsNothing ==
    [][ /\ ( /\ Returns /\ ret'.op = "createTask"
             /\ ret'.result \in {"ERROR_RATE_LIMIT", "ERROR_ZERO_BALANCE",
                                 "ERROR_INVALID_TASK_TYPE"} )
           => /\ ret'.task = 0
              /\ tasks' = tasks
              /\ queue' = queue
              /\ \E s \in Sessions :
                    /\ StepOf(s) /\ sess[s].task = 0
                    /\ sess[s].pc =
                          ( IF ret'.result = "ERROR_RATE_LIMIT" THEN "r_gate"
                            ELSE IF ret'.result = "ERROR_INVALID_TASK_TYPE" THEN "r_auth"
                            ELSE "r_check" )
                    /\ ret'.result = "ERROR_ZERO_BALANCE"
                          => balance[sess[s].user] < Price
        /\ \A j \in TaskIds :
             tasks'[j] # tasks[j] =>
                \E s \in Sessions :
                   /\ sess[s].pc = "r_save" /\ StepOf(s)
                   /\ tasks[j].status = ABSENT
                   /\ tasks'[j] = NewTask(sess[s].user)
                   /\ sess[s].req.answer = "allowed"
                   /\ sess[s].req.task_valid
                   /\ sess[s].user = get_by_hashed_api_key(sess[s].req.clientKey)
                   /\ sess[s].user \in Users
                   /\ balance[sess[s].user] >= Price
      ]_vars

\* An allowed, valid request of an account with no money got the zero
\* balance error and has no job, after a request of a funded account had
\* its job stored and enqueued: that job is the only one.
C33_Witness ==
    /\ Returned("createTask") /\ ret.result = "ERROR_ZERO_BALANCE"
    /\ ret.req.answer = "allowed" /\ ret.req.task_valid
    /\ ret.user \in Users /\ balance[ret.user] < Price
    /\ ret.task = 0
    /\ \E j \in TaskIds :
          /\ tasks[j].status = PENDING /\ tasks[j].user # ret.user
          /\ queue[j].jobs = 1
          /\ \A k \in TaskIds \ {j} : tasks[k].status = ABSENT /\ queue[k].jobs = 0

\* C34: the sorted set of a key never holds more than max_requests members;
\* a key that holds members has an expiry time that lies ahead and at most
\* window_seconds ahead, set by its last admitted check to window_seconds
\* after the script ran, and the key is removed when that time comes; a
\* rejected check adds no member and leaves the expiry time as it was, and
\* only an admitted check moves an expiry time.
C34_BoundedAndExpiring ==
    /\ [](\A k \in GateKeys :
            /\ Cardinality(zset[k]) <= limit.max_requests
            /\ zset[k] # {} =>
                  /\ expire[k] # NoTime
                  /\ clock < expire[k]
                  /\ expire[k] <= clock + Window
            /\ zset[k] = {} => expire[k] = NoTime)
    /\ [][ /\ \A c \in Callers :
                Evaluates(c) =>
                   LET k == gate[c].key IN
                   IF gret'.is_allowed
                   THEN /\ expire'[k] = clock + Window
                        /\ \E m \in zset'[k] : Score(m) = gate[c].now
                   ELSE /\ expire'[k] = expire[k]
                        /\ zset'[k] \subseteq zset[k]
                        /\ zset'[k] # {}
           /\ \A k \in GateKeys :
                expire'[k] # expire[k] =>
                   \/ \E c \in Callers :
                         Evaluates(c) /\ gate[c].key = k /\ gret'.is_allowed
                   \/ /\ clock' = clock + 1
                      /\ expire[k] = clock'
                      /\ expire'[k] = NoTime /\ zset'[k] = {}
           /\ clock' # clock =>
                \A k \in GateKeys :
                   ( expire[k] # NoTime /\ expire[k] <= clock' ) => zset'[k] = {}
         ]_vars

\* A key was full, a check on it was rejected, and the key has been removed
\* since, less than window_seconds after the rejected check: the rejection
\* did not keep the key alive.
C34_Witness ==
    /\ gret.key # NoStr /\ ~gret.is_allowed
    /\ zset[gret.key] = {} /\ expire[gret.key] = NoTime
    /\ \E t \in 0..MaxTime : admitted[gret.key][t] = limit.max_requests
    /\ clock - gret.now < Window

\* ------------------------------------------------- rate limiter key
\* check_rate_limit: key=api_key[:16]
gate_key(api_key) == <<api_key[1], api_key[2]>>

\* generate_api_key: a key no account holds (users.hashed_api_key is unique).
FreshKeys == KeyValues \ {credential.api_key[u] : u \in Users}

\* AuthService.regenerate_api_key(user_id)
RegenerateApiKey(u, new_key) ==
    /\ new_key \in FreshKeys
    /\ credential' = [credential EXCEPT !.api_key[u] = new_key]
    /\ UNCHANGED <<dbvars, gatevars, entity, account, queue>>

\* A request of account u, made with the key the account holds, reaches
\* check_rate_limit.
KeyedRequest(u) ==
    /\ credential' = [credential EXCEPT
                        !.counted[u] = @ \cup {gate_key(credential.api_key[u])}]
    /\ UNCHANGED <<dbvars, gatevars, entity, account, queue>>

\* The accounts hold two keys that differ in their first digits already.
CredentialInit ==
    /\ DbStart
    /\ GateStart([max_requests |-> rate_limit_per_minute,
                  window_seconds |-> window_seconds])
    /\ EntityStart
    /\ AccountStart
    /\ QueueStart
    /\ \E k \in [Users -> KeyValues] :
          /\ \A u, v \in Users : u # v => gate_key(k[u]) # gate_key(k[v])
          /\ credential = [api_key |-> k, counted |-> [u \in Users |-> {}]]

CredentialNext ==
    \/ \E u \in Users, k \in KeyValues : RegenerateApiKey(u, k)
    \/ \E u \in Users : KeyedRequest(u)

CredentialSpec == CredentialInit /\ [][CredentialNext]_vars

\* C35: all requests of one account are counted under one rate limiter key,
\* whatever keys the account has held, and no rate limiter key counts
\* requests of two accounts.
C35_GateKeyPerAccount ==
    /\ \A u \in Users : Cardinality(credential.counted[u]) <= 1
    /\ \A u, v \in Users :
          u # v => credential.counted[u] \cap credential.counted[v] = {}

\* C36: once complete_task has committed in an invocation of
\* solve_captcha_task, no later step of that invocation goes to fail_task:
\* the invocation leaves the job READY with its token and cost.
C36_NoFailAfterComplete ==
    [][ \A s \in Sessions :
          ( /\ sess[s].op = "solve"
            /\ sess[s].amt > 0
            /\ StepOf(s) )
          => /\ sess'[s].pc \notin {"h_fail", "h_except"}
             /\ tasks'[sess[s].task] = tasks[sess[s].task]
      ]_vars

\* ------------------------------------------- the worker without failures
\* The worker runs every handler it has started to its end: no shutdown, no
\* cancellation, and the event loop resumes every coroutine that can go on.
WorkerRuns ==
    \/ \E s \in Sessions, j \in TaskIds : Deliver(s, j)
    \/ \E s \in Sessions : HandlerStart(s)
    \/ \E s \in Sessions, o \in Tokens \cup ErrorCodes : HandlerSolve(s, o)
    \/ \E s \in Sessions : HandlerDeduct(s)
    \/ \E s \in Sessions : HandlerSaveTx(s)
    \/ \E s \in Sessions : HandlerCommit(s)
    \/ \E s \in Sessions : HandlerFail(s)
    \/ \E s \in Sessions, closed \in BOOLEAN : HandlerClose(s, closed)
    \/ \E s \in Sessions : HandlerExcept(s)

HandlerStep(s) ==
    \/ HandlerStart(s)
    \/ \E o \in Tokens \cup ErrorCodes : HandlerSolve(s, o)
    \/ HandlerDeduct(s)
    \/ HandlerSaveTx(s)
    \/ HandlerCommit(s)
    \/ HandlerFail(s)
    \/ \E closed \in BOOLEAN : HandlerClose(s, closed)
    \/ HandlerExcept(s)

WorkerFairSpec ==
    /\ WorkerInit
    /\ [][WorkerRuns]_vars
    /\ \A s \in Sessions : WF_vars(HandlerStep(s))

C38_RefundMirrorsDeduct ==
    \A r \in DOMAIN ledger :
        ledger[r].type = "refund" =>
           LET j == ledger[r].reference_id IN
             /\ j \in TaskIds
             /\ Cardinality(DeductsOf(j)) = 1
             /\ \A d \in DeductsOf(j) :
                   /\ d < r
                   /\ ledger[d].user = ledger[r].user
                   /\ ledger[r].amount = tasks[j].cost
                   /\ tasks[j].cost = -ledger[d].amount
                   /\ ledger[d].amount + ledger[r].amount = 0

\* An account made one deposit, was charged for a job and was refunded: the
\* ledger holds the deposit, the DEDUCT and the REFUND in that order, the job
\* still carries its cost, and the balance is the deposit again.
C38_Witness ==
    /\ Returned("refund") /\ ret.result = "true"
    /\ Len(ledger) = 3
    /\ ledger[1].type = "deposit" /\ ledger[1].user = ret.user
    /\ DeductsOf(ret.task) = {2} /\ RefundsOf(ret.task) = {3}
    /\ tasks[ret.task].cost = ledger[3].amount
    /\ balance[ret.user] = ledger[1].amount

====
